---------------------------- MODULE Spec2Model ----------------------------
(***************************************************************************)
(* Model of the price-list normalization pipeline of the crawler package   *)
(* (src/py/crawler/combined_crawlers.py): the Record Fixer                 *)
(* (BaseCrawler.fix_product_data), the Field Extractor (parse_csv_row,     *)
(* parse_xml_product), the Price Parser (parse_price), the record-group    *)
(* parsers (parse_csv, parse_xml, parse_excel) and the per-chain           *)
(* aggregators (get_all_products) driven by BaseCrawler.crawl.             *)
(*                                                                         *)
(* Text is modelled as a sequence of one-character strings, so that        *)
(* str.replace, str.strip and concatenation are computed and not assumed.  *)
(* An Optional[Decimal] is <<>> for None and <<c>> for the value c/100.    *)
(* A dict is a function whose DOMAIN is its key set.                       *)
(***************************************************************************)
EXTENDS Integers, Sequences, FiniteSets, TLC

VARIABLES
    adapter,    \* the crawler class in use (its CHAIN slug)
    pc,         \* position of crawl(): not_started, running, complete, failed
    stores,     \* the list `stores` built by get_all_products
    nGroups,    \* number of record groups the loop has taken so far
    nRows,      \* number of records those groups held
    last,       \* the record group taken by the latest loop iteration
    ret,        \* what crawl() handed to its caller
    fixIn,      \* fix_product_data: the extracted record passed in
    fixOut,     \* fix_product_data: results of the passes applied so far
    priceIn,    \* parse_price: the arguments of the call
    priceOut,   \* parse_price: the outcome of the call, once made
    frames,     \* parallel crawls: the local variables of each call
    lists,      \* parallel crawls: the list objects the calls append to
    logged,     \* parallel crawls: records written to the module's logger
    tables      \* transform_products: the three lists returned, once called

vars == <<adapter, pc, stores, nGroups, nRows, last, ret, fixIn, fixOut,
                 priceIn, priceOut, frames, lists, logged, tables>>

-----------------------------------------------------------------------------
(* Bounds of the model *)

\* longest barcode handed to fix_product_data
MaxBarcodeLen == 3
\* record groups taken in one crawl
MaxGroups == 3
\* records held by the groups of one crawl, all groups together
MaxRows == 2
\* fractional digits of the decimals whose spellings parse_price is given
MaxFracLen == 3

-----------------------------------------------------------------------------
(* Values *)

None == <<>>
Some(c) == <<c>>

DQ == "\""
SQ == "'"
SP == " "

Whitespace == {SP}

\* dict helpers
Has(d, k) == k \in DOMAIN d
Get(d, k) == IF k \in DOMAIN d THEN d[k] ELSE None
Put(d, k, v) == (k :> v) @@ d

\* a raised exception
Raise(type, msg) == [error |-> type, msg |-> msg]
IsError(r) == "error" \in DOMAIN r

-----------------------------------------------------------------------------
(* str methods *)

\* s.replace(c, "") for a one-character c
remove_char(s, c) == SelectSeq(s, LAMBDA x : x # c)

RECURSIVE lstrip(_)
lstrip(s) ==
    IF s = <<>> THEN <<>>
    ELSE IF Head(s) \in Whitespace THEN lstrip(Tail(s)) ELSE s

RECURSIVE rstrip(_)
rstrip(s) ==
    IF s = <<>> THEN <<>>
    ELSE IF s[Len(s)] \in Whitespace THEN rstrip(SubSeq(s, 1, Len(s) - 1)) ELSE s

strip(s) == rstrip(lstrip(s))


-----------------------------------------------------------------------------
(* The crawler classes and their CHAIN slugs *)

Adapters ==
    {"dm", "eurospin", "kaufland", "konzum", "ktc", "lidl", "metro", "ntl",
     "plodine", "ribola", "spar", "studenac", "tommy", "trgocentar", "vrutak",
     "zabac"}

CHAIN ==
    [dm         |-> <<"d", "m">>,
     eurospin   |-> <<"e", "u", "r", "o", "s", "p", "i", "n">>,
     kaufland   |-> <<"k", "a", "u", "f", "l", "a", "n", "d">>,
     konzum     |-> <<"k", "o", "n", "z", "u", "m">>,
     ktc        |-> <<"k", "t", "c">>,
     lidl       |-> <<"l", "i", "d", "l">>,
     metro      |-> <<"m", "e", "t", "r", "o">>,
     ntl        |-> <<"n", "t", "l">>,
     plodine    |-> <<"p", "l", "o", "d", "i", "n", "e">>,
     ribola     |-> <<"r", "i", "b", "o", "l", "a">>,
     spar       |-> <<"s", "p", "a", "r">>,
     studenac   |-> <<"s", "t", "u", "d", "e", "n", "a", "c">>,
     tommy      |-> <<"t", "o", "m", "m", "y">>,
     trgocentar |-> <<"t", "r", "g", "o", "c", "e", "n", "t", "a", "r">>,
     vrutak     |-> <<"v", "r", "u", "t", "a", "k">>,
     zabac      |-> <<"z", "a", "b", "a", "c">>]

\* the adapters whose records are XML elements (parse_xml_product)
XmlAdapters == {"ribola", "studenac", "trgocentar", "vrutak"}

\* the adapters whose FIELD_MAP has an anchor_price_date entry
DateFieldAdapters == {"spar"}

\* datetime.date(2025, 5, 2).isoformat(); an Optional[str] date is <<>> for
\* None and <<d>> for the string d
ANCHOR_DATE == <<"2", "0", "2", "5", "-", "0", "5", "-", "0", "2">>

-----------------------------------------------------------------------------
(* BaseCrawler.fix_product_data, rule by rule *)

\* variant: the barcode is cleaned first and synthesized afterwards
fix_barcode_clean_then_synth(chain, data) ==
    LET cleaned == strip(remove_char(remove_char(data.barcode, DQ), SQ))
    IN  IF cleaned = <<>>
        THEN Put(data, "barcode", chain \o <<":">> \o data.product_id)
        ELSE Put(data, "barcode", cleaned)

\* variant: whitespace is stripped before the quotes are removed
fix_barcode_strip_first(chain, data) ==
    LET d1 == IF data.barcode = <<>>
              THEN Put(data, "barcode", chain \o <<":">> \o data.product_id)
              ELSE data
    IN  Put(d1, "barcode", remove_char(remove_char(strip(d1.barcode), DQ), SQ))

fix_barcode(chain, data) ==
    LET d1 == IF data.barcode = <<>>
              THEN Put(data, "barcode", chain \o <<":">> \o data.product_id)
              ELSE data
    IN  Put(d1, "barcode", strip(remove_char(remove_char(d1.barcode, DQ), SQ)))

fix_special_price(data) ==
    IF ~Has(data, "special_price") THEN Put(data, "special_price", None) ELSE data

\* variant: unit_price is preferred over special_price
fix_price_unit_first(data) ==
    IF data.price = None
    THEN IF Get(data, "unit_price") = None
         THEN IF Get(data, "special_price") # None
              THEN Put(data, "price", data.special_price)
              ELSE Raise("ValueError",
                         "Price, special price, and unit price are all missing")
         ELSE Put(data, "price", data.unit_price)
    ELSE data

\* variant: an unresolvable price is defaulted to zero and the record kept
fix_price_default_zero(data) ==
    IF data.price = None
    THEN IF Get(data, "special_price") = None
         THEN IF Get(data, "unit_price") # None
              THEN Put(data, "price", data.unit_price)
              ELSE Put(data, "price", Some(0))
         ELSE Put(data, "price", data.special_price)
    ELSE data

fix_price(data) ==
    IF data.price = None
    THEN IF Get(data, "special_price") = None
         THEN IF Get(data, "unit_price") # None
              THEN Put(data, "price", data.unit_price)
              ELSE Raise("ValueError",
                         "Price, special price, and unit price are all missing")
         ELSE Put(data, "price", data.special_price)
    ELSE data

\* Python truth value of data.get("anchor_price_date")
date_truthy(data) ==
    Has(data, "anchor_price_date")
    /\ data.anchor_price_date # None
    /\ data.anchor_price_date # Some(<<>>)

\* variant: the reference date is written whenever anchor_price is present
fix_anchor_price_date_always(data) ==
    IF data.anchor_price # None
    THEN Put(data, "anchor_price_date", Some(ANCHOR_DATE))
    ELSE data

fix_anchor_price_date(data) ==
    IF data.anchor_price # None /\ ~date_truthy(data)
    THEN Put(data, "anchor_price_date", Some(ANCHOR_DATE))
    ELSE data

\* variant: unit_price always follows price
fix_unit_price_always(data) ==
    Put(data, "unit_price", data.price)

fix_unit_price(data) ==
    IF data.unit_price = None THEN Put(data, "unit_price", data.price) ELSE data

fix_after_price(d) ==
    IF IsError(d) THEN d ELSE fix_unit_price(fix_anchor_price_date(d))

base_fix_product_data(chain, data) ==
    fix_after_price(fix_price(fix_special_price(fix_barcode(chain, data))))

\* NtlCrawler.fix_product_data and ZabacCrawler.fix_product_data
strip_product_name(data) ==
    IF Has(data, "product") /\ data.product # <<>>
    THEN Put(data, "product", strip(data.product))
    ELSE data

fix_product_data(a, data) ==
    IF a \in {"ntl", "zabac"}
    THEN base_fix_product_data(CHAIN[a], strip_product_name(data))
    ELSE base_fix_product_data(CHAIN[a], data)

-----------------------------------------------------------------------------
(* parse_price *)

Digits == {"0", "1", "2", "3", "4", "5", "6", "7", "8", "9"}

DigitChars == <<"0", "1", "2", "3", "4", "5", "6", "7", "8", "9">>

DigitValue(c) ==
    CASE c = "0" -> 0 [] c = "1" -> 1 [] c = "2" -> 2 [] c = "3" -> 3
      [] c = "4" -> 4 [] c = "5" -> 5 [] c = "6" -> 6 [] c = "7" -> 7
      [] c = "8" -> 8 [] c = "9" -> 9

RECURSIVE DigitsValue(_)
DigitsValue(s) ==
    IF s = <<>> THEN 0
    ELSE 10 * DigitsValue(SubSeq(s, 1, Len(s) - 1)) + DigitValue(s[Len(s)])

\* variant: "EUR" is left in place
keep_EUR(s) == s

\* s.replace("EUR", ""): occurrences are removed left to right, once
RECURSIVE remove_EUR(_)
remove_EUR(s) ==
    IF Len(s) < 3 THEN s
    ELSE IF SubSeq(s, 1, 3) = <<"E", "U", "R">>
         THEN remove_EUR(SubSeq(s, 4, Len(s)))
         ELSE <<Head(s)>> \o remove_EUR(Tail(s))

\* variant: the comma is left in place
comma_kept(s) == s

\* s.replace(",", ".")
comma_to_point(s) == [i \in 1..Len(s) |-> IF s[i] = "," THEN "." ELSE s[i]]

\* variant: quantize with rounding=ROUND_DOWN, the digits after the second
\* fractional digit dropped
decimal_truncate(s) ==
    LET signed == s # <<>> /\ Head(s) \in {"+", "-"}
        body == IF signed THEN Tail(s) ELSE s
        points == {i \in 1..Len(body) : body[i] = "."}
        wellFormed ==
            /\ \A i \in 1..Len(body) : body[i] \in Digits \cup {"."}
            /\ Cardinality(points) <= 1
            /\ \E i \in 1..Len(body) : body[i] \in Digits
    IN  IF ~wellFormed THEN None
        ELSE LET p == IF points = {} THEN Len(body) + 1
                      ELSE CHOOSE i \in points : TRUE
                 whole == SubSeq(body, 1, p - 1)
                 frac == SubSeq(body, p + 1, Len(body))
                 d1 == IF Len(frac) >= 1 THEN DigitValue(frac[1]) ELSE 0
                 d2 == IF Len(frac) >= 2 THEN DigitValue(frac[2]) ELSE 0
                 magnitude == DigitsValue(whole) * 100 + d1 * 10 + d2
             IN  Some(IF signed /\ Head(s) = "-" THEN 0 - magnitude ELSE magnitude)

\* Decimal(s) for the spellings of a quiet NaN, [sign] "nan" in any case:
\* quantize hands a quiet NaN through, so the value returned is NaN, written
\* here as its decimal text "NaN" or "-NaN".  None for any other string.
decimal_nan(s) ==
    LET signed == s # <<>> /\ Head(s) \in {"+", "-"}
        body == IF signed THEN Tail(s) ELSE s
    IN  IF /\ Len(body) = 3
           /\ body[1] \in {"n", "N"} /\ body[2] \in {"a", "A"}
           /\ body[3] \in {"n", "N"}
        THEN (IF Head(s) = "-" THEN <<"-">> ELSE <<>>) \o <<"N", "a", "N">>
        ELSE None

\* Decimal(s).quantize(Decimal("0.01"), rounding=ROUND_HALF_UP) in hundredths,
\* the NaN that Decimal(s) is, or None when Decimal(s) or quantize raises
\* InvalidOperation.  The numeric strings covered are [sign] digits [. digits],
\* [sign] . digits and [sign] nan.
decimal_quantize(s) ==
    LET signed == s # <<>> /\ Head(s) \in {"+", "-"}
        body == IF signed THEN Tail(s) ELSE s
        points == {i \in 1..Len(body) : body[i] = "."}
        wellFormed ==
            /\ \A i \in 1..Len(body) : body[i] \in Digits \cup {"."}
            /\ Cardinality(points) <= 1
            /\ \E i \in 1..Len(body) : body[i] \in Digits
    IN  IF ~wellFormed THEN decimal_nan(s)
        ELSE LET p == IF points = {} THEN Len(body) + 1
                      ELSE CHOOSE i \in points : TRUE
                 whole == SubSeq(body, 1, p - 1)
                 frac == SubSeq(body, p + 1, Len(body))
                 d1 == IF Len(frac) >= 1 THEN DigitValue(frac[1]) ELSE 0
                 d2 == IF Len(frac) >= 2 THEN DigitValue(frac[2]) ELSE 0
                 d3 == IF Len(frac) >= 3 THEN DigitValue(frac[3]) ELSE 0
                 magnitude == DigitsValue(whole) * 100 + d1 * 10 + d2
                              + (IF d3 >= 5 THEN 1 ELSE 0)
             IN  Some(IF signed /\ Head(s) = "-" THEN 0 - magnitude ELSE magnitude)

Return(v) == [value |-> v]

\* the outcome for a non-empty normalized string s whose Decimal value is v
price_result(s, v, required) ==
    IF v # None THEN Return(v)
    ELSE IF required
         THEN [error |-> "ValueError", msg |-> "Invalid price format", arg |-> s]
         ELSE Return(None)

\* variant: no repair, and a number must start with a sign or a digit
price_of_normalized_no_repair(s, required) ==
    IF s = <<>>
    THEN IF required THEN Raise("ValueError", "Price is required")
         ELSE Return(None)
    ELSE IF Head(s) = "."
         THEN price_result(s, None, required)
         ELSE price_result(s, decimal_quantize(s), required)

\* the outcome for the normalized string s
price_of_normalized(s, required) ==
    IF s = <<>>
    THEN IF required THEN Raise("ValueError", "Price is required")
         ELSE Return(None)
    ELSE IF Head(s) = "."
         THEN price_result(<<"0">> \o s, decimal_quantize(<<"0">> \o s), required)
         ELSE price_result(s, decimal_quantize(s), required)

\* price_str is None or <<text>>; the result is Return(None), Return(<<cents>>)
\* or the ValueError raised
parse_price(price_str, required) ==
    price_of_normalized(
        strip(comma_to_point(remove_EUR(remove_char(
            IF price_str = None THEN <<>> ELSE price_str[1], "€")))),
        required)

-----------------------------------------------------------------------------
(* PRICE_MAP and FIELD_MAP of each crawler class: field -> <<column, required>>. *)
(* A column is named after the canonical field it feeds, except where the   *)
(* class maps a field to the empty locator or to another field's column.    *)
(* The text fields brand, quantity, unit, category and packaging and the    *)
(* price field best_price_30 are optional everywhere and left out.          *)

MappedAdapters == Adapters \ {"dm", "tommy"}

PriceRequired ==
    [a \in MappedAdapters |->
        [price |-> a \in {"eurospin", "ktc", "metro", "vrutak"},
         unit_price |-> a \in {"eurospin", "konzum", "ktc", "metro"},
         special_price |-> FALSE,
         anchor_price |-> FALSE]]

PRICE_MAP(a) ==
    [price |-> <<"price", PriceRequired[a].price>>,
     unit_price |-> <<IF a = "zabac" THEN "price" ELSE "unit_price",
                      PriceRequired[a].unit_price>>,
     special_price |-> <<IF a \in {"vrutak", "zabac"} THEN "" ELSE "special_price",
                         FALSE>>,
     anchor_price |-> <<IF a \in {"vrutak", "zabac"} THEN "" ELSE "anchor_price",
                        FALSE>>]

\* the text entries after the three every map has in common: Spar maps the
\* canonical anchor_price_date, Kaufland maps a key named anchor_date
ExtraTextFields(a) ==
    IF a \in DateFieldAdapters THEN <<"anchor_price_date">>
    ELSE IF a = "kaufland" THEN <<"anchor_date">>
    ELSE <<>>

FIELD_MAP(a) ==
    LET base == [product |-> <<"product", a \notin {"lidl", "studenac"}>>,
                 product_id |-> <<"product_id", TRUE>>,
                 barcode |-> <<"barcode", FALSE>>]
    IN  IF ExtraTextFields(a) = <<>> THEN base
        ELSE Put(base, ExtraTextFields(a)[1], <<ExtraTextFields(a)[1], FALSE>>)

PriceFields == <<"price", "unit_price", "special_price", "anchor_price">>
TextFields(a) == <<"product", "product_id", "barcode">> \o ExtraTextFields(a)

-----------------------------------------------------------------------------
(* Product construction: pydantic validation of the required Decimal fields *)

Product(data) ==
    IF data.price = None \/ data.unit_price = None
    THEN Raise("ValidationError", "price and unit_price must be Decimal")
    ELSE [product |-> data.product,
          product_id |-> data.product_id,
          barcode |-> data.barcode,
          price |-> data.price,
          unit_price |-> data.unit_price,
          special_price |-> Get(data, "special_price"),
          anchor_price |-> Get(data, "anchor_price"),
          anchor_price_date |-> Get(data, "anchor_price_date")]

-----------------------------------------------------------------------------
(* Field extraction.  A CSV row is a function column -> None | <<text>>     *)
(* (csv.DictReader gives None to the columns a short line lacks); an XML    *)
(* record is a function child tag -> <<text>>.                              *)

Range(f) == {f[i] : i \in DOMAIN f}

\* the first exception raised while the fields are read in map order
FirstError(results, order) ==
    LET bad == {i \in 1..Len(order) : IsError(results[order[i]])}
    IN  IF bad = {} THEN None
        ELSE Some(results[order[CHOOSE i \in bad : \A j \in bad : i <= j]])

\* a text value checked against the field's required flag
text_result(value, required) ==
    IF value = <<>> /\ required
    THEN Raise("ValueError", "Missing required field")
    ELSE Return(value)

\* row.get(column, "").strip()
csv_text(row, column, required) ==
    IF Has(row, column) /\ row[column] = None
    THEN Raise("AttributeError", "'NoneType' object has no attribute 'strip'")
    ELSE text_result(strip(IF Has(row, column) THEN row[column][1] ELSE <<>>),
                     required)

\* get_text(f"{tagname}/text()"): the first text node if it is non-empty, else
\* "".  For the tag name "" the path is "/text()", the text children of the
\* document root, of which there are none.
get_text(elem, tagname) ==
    IF tagname # "" /\ Has(elem, tagname) /\ elem[tagname] # None
    THEN elem[tagname][1] ELSE <<>>

xml_text(elem, tagname, required) ==
    text_result(get_text(elem, tagname), required)

\* Product(**data) on the fixed dict, unless fix_product_data raised
validated(fixed) == IF IsError(fixed) THEN fixed ELSE Product(fixed)

\* the dict built from the extracted values, then fixed and validated
build_product(a, prices, texts) ==
    validated(fix_product_data(a,
        [f \in Range(PriceFields) \cup Range(TextFields(a)) |->
            IF f \in Range(PriceFields) THEN prices[f].value
            ELSE IF f = "anchor_price_date" THEN Some(texts[f].value)
            ELSE texts[f].value]))

\* the first exception of the price loop, else of the text loop, else the Product
assemble(a, prices, texts, e1, e2) ==
    IF e1 # None THEN e1[1]
    ELSE IF e2 # None THEN e2[1]
    ELSE build_product(a, prices, texts)

extracted(a, prices, texts) ==
    assemble(a, prices, texts,
             FirstError(prices, PriceFields), FirstError(texts, TextFields(a)))

parse_csv_row(a, row) ==
    extracted(a,
        [f \in Range(PriceFields) |->
            parse_price(Get(row, PRICE_MAP(a)[f][1]), PRICE_MAP(a)[f][2])],
        [f \in Range(TextFields(a)) |->
            csv_text(row, FIELD_MAP(a)[f][1], FIELD_MAP(a)[f][2])])

parse_xml_product(a, elem) ==
    extracted(a,
        [f \in Range(PriceFields) |->
            parse_price(Some(get_text(elem, PRICE_MAP(a)[f][1])),
                        PRICE_MAP(a)[f][2])],
        [f \in Range(TextFields(a)) |->
            xml_text(elem, FIELD_MAP(a)[f][1], FIELD_MAP(a)[f][2])])

-----------------------------------------------------------------------------
(* The parse_csv_row overrides.  SparCrawler.parse_csv_row only renames the  *)
(* columns ("(EUR)" removed) before it delegates; the columns are named here *)
(* by the canonical field they feed, so that renaming changes nothing.       *)

\* the index after the longest run of characters of S that starts at i
RECURSIVE RunEnd(_, _, _)
RunEnd(s, i, S) ==
    IF i <= Len(s) /\ s[i] \in S THEN RunEnd(s, i + 1, S) ELSE i

\* the character at i as a one-element sequence, <<>> past the end
At(s, i) == IF i \in 1..Len(s) THEN <<s[i]>> ELSE <<>>

\* "sub in s"
Contains(s, sub) ==
    \E i \in 1..(Len(s) - Len(sub) + 1) : SubSeq(s, i, i + Len(sub) - 1) = sub

\* ANCHOR_PRICE_PATTERN matched at position i: MPC\s+(\d+\.\d+\.\d+)=(.+)
\* Every quantified run is followed by a character outside it, so the greedy
\* match is the only one; the date group is given by its three numbers.
pattern_match(s, i, a, b, c, d) ==
    IF /\ i + 2 <= Len(s) /\ SubSeq(s, i, i + 2) = <<"M", "P", "C">>
       /\ a > i + 3
       /\ b > a /\ At(s, b) = <<".">>
       /\ c > b + 1 /\ At(s, c) = <<".">>
       /\ d > c + 1 /\ At(s, d) = <<"=">>
       /\ d < Len(s)
    THEN Some([day |-> SubSeq(s, a, b - 1),
               month |-> SubSeq(s, b + 1, c - 1),
               year |-> SubSeq(s, c + 1, d - 1),
               price |-> SubSeq(s, d + 1, Len(s))])
    ELSE None

pattern_dots(s, i, a, b, c) ==
    pattern_match(s, i, a, b, c, RunEnd(s, c + 1, Digits))

pattern_day(s, i, a, b) == pattern_dots(s, i, a, b, RunEnd(s, b + 1, Digits))

pattern_space(s, i, a) == pattern_day(s, i, a, RunEnd(s, a, Digits))

pattern_at(s, i) == pattern_space(s, i, RunEnd(s, i + 3, Whitespace))

\* ANCHOR_PRICE_PATTERN.search: the leftmost match, None when there is none
pattern_first(s, hits) ==
    IF hits = {} THEN None
    ELSE pattern_at(s, CHOOSE i \in hits : \A j \in hits : i <= j)

ANCHOR_PRICE_PATTERN_search(s) ==
    pattern_first(s, {i \in 1..Len(s) : pattern_at(s, i) # None})

DaysInMonth(m, y) ==
    IF m = 2
    THEN (IF y % 4 = 0 /\ (y % 100 # 0 \/ y % 400 = 0) THEN 29 ELSE 28)
    ELSE IF m \in {4, 6, 9, 11} THEN 30 ELSE 31

\* strptime(date_str, "%d.%m.%Y") succeeds: one or two digits of day and of
\* month, four of year, naming a day of the calendar
strptime_ok(g) ==
    /\ Len(g.day) \in {1, 2} /\ Len(g.month) \in {1, 2} /\ Len(g.year) = 4
    /\ DigitsValue(g.year) >= 1
    /\ DigitsValue(g.month) \in 1..12
    /\ DigitsValue(g.day)
          \in 1..DaysInMonth(DigitsValue(g.month), DigitsValue(g.year))

zero_pad2(t) == IF Len(t) = 1 THEN <<"0">> \o t ELSE t

\* .date().strftime("%Y-%m-%d"), for the years from 1000 on
strftime_iso(g) ==
    g.year \o <<"-">> \o zero_pad2(g.month) \o <<"-">> \o zero_pad2(g.day)

\* the two columns after the token was searched: date and price part on a
\* match with a calendar date, else an empty date and an empty anchor price
kaufland_split(row, m) ==
    IF m # None /\ strptime_ok(m[1])
    THEN Put(Put(row, "anchor_date", Some(strftime_iso(m[1]))),
             "anchor_price", Some(m[1].price))
    ELSE Put(Put(row, "anchor_date", Some(<<>>)), "anchor_price", Some(<<>>))

\* KauflandCrawler.parse_csv_row before it delegates: "Datum sidrenja" is set
\* to "", and a non-empty "Sidrena cijena" is split
kaufland_row(row, anchor_price) ==
    IF anchor_price # None /\ anchor_price[1] # <<>>
    THEN kaufland_split(row, ANCHOR_PRICE_PATTERN_search(anchor_price[1]))
    ELSE Put(row, "anchor_date", Some(<<>>))

NOT_ON_SALE ==
    <<"N", "i", "j", "e", "_", "b", "i", "l", "o", "_", "u", "_",
      "p", "r", "o", "d", "a", "j", "i">>

\* LidlCrawler.parse_csv_row before it delegates: row.get(column, "").strip()
\* raises on a None cell; an anchor price that says "not on sale" becomes None
lidl_row(row) ==
    IF Has(row, "anchor_price") /\ row["anchor_price"] = None
    THEN Raise("AttributeError", "'NoneType' object has no attribute 'strip'")
    ELSE IF Has(row, "anchor_price")
            /\ Contains(strip(row["anchor_price"][1]), NOT_ON_SALE)
    THEN Put(row, "anchor_price", None)
    ELSE row

\* what the crawler's own parse_csv_row does to the row before super()
override_row(a, row) ==
    IF a = "kaufland" THEN kaufland_row(row, Get(row, "anchor_price"))
    ELSE IF a = "lidl" THEN lidl_row(row)
    ELSE row

\* return super().parse_csv_row(row)
delegate(a, r) == IF IsError(r) THEN r ELSE parse_csv_row(a, r)

\* self.parse_csv_row(row): the override where the crawler has one
self_parse_csv_row(a, row) == delegate(a, override_row(a, row))

\* variant: the product is put after those of the later records
keep_behind(p, rest) == IF IsError(p) THEN rest ELSE rest \o <<p>>

\* products.append(product), or "continue" when the record raised
keep(p, rest) == IF IsError(p) THEN rest ELSE <<p>> \o rest

\* the products before the first record that raised
keep_until_error(p, rest) == IF IsError(p) THEN <<>> ELSE <<p>> \o rest

\* variant: the first failing row ends the loop
RECURSIVE parse_csv_abort(_, _)
parse_csv_abort(a, rows) ==
    IF rows = <<>> THEN <<>>
    ELSE keep_until_error(self_parse_csv_row(a, Head(rows)),
                          parse_csv_abort(a, Tail(rows)))

\* parse_csv: each row in its own try/except, failures logged and skipped
RECURSIVE parse_csv(_, _)
parse_csv(a, rows) ==
    IF rows = <<>> THEN <<>>
    ELSE keep(self_parse_csv_row(a, Head(rows)), parse_csv(a, Tail(rows)))

\* the per-record loop of the XML group parsers
RECURSIVE parse_xml_products(_, _)
parse_xml_products(a, elems) ==
    IF elems = <<>> THEN <<>>
    ELSE keep(parse_xml_product(a, Head(elems)),
              parse_xml_products(a, Tail(elems)))

-----------------------------------------------------------------------------
(* Parsers that do not go through PRICE_MAP / FIELD_MAP *)

\* Python truth value of an Optional[Decimal]
price_truthy(p) == p # None /\ p # Some(0)

\* variant: a Product keeps the two prices as they were parsed
tommy_product_no_copy(row, texts, e, price, unit_price) ==
    IF e # None THEN e[1]
    ELSE IF \E f \in {"special_price", "anchor_price"} :
                Has(row, f) /\ row[f] = None
    THEN Raise("AttributeError", "'NoneType' object has no attribute 'strip'")
    ELSE IF texts.product.value # <<>>
            /\ (price_truthy(price) \/ price_truthy(unit_price))
    THEN Product([product |-> texts.product.value,
                  product_id |-> texts.product_id.value,
                  barcode |-> texts.barcode.value,
                  price |-> price,
                  unit_price |-> unit_price,
                  special_price |->
                      parse_price(Get(row, "special_price"), FALSE).value,
                  anchor_price |->
                      parse_price(Get(row, "anchor_price"), FALSE).value])
    ELSE Raise("Skipped", "missing required fields")

\* TommyCrawler.parse_csv, one row: the text fields are stripped, the prices
\* are parsed as optional, and a Product is built only from a named row that
\* has a non-zero price or unit price
tommy_product(row, texts, e, price, unit_price) ==
    IF e # None THEN e[1]
    ELSE IF \E f \in {"special_price", "anchor_price"} :
                Has(row, f) /\ row[f] = None
    THEN Raise("AttributeError", "'NoneType' object has no attribute 'strip'")
    ELSE IF texts.product.value # <<>>
            /\ (price_truthy(price) \/ price_truthy(unit_price))
    THEN Product([product |-> texts.product.value,
                  product_id |-> texts.product_id.value,
                  barcode |-> texts.barcode.value,
                  price |-> IF price_truthy(price) THEN price ELSE unit_price,
                  unit_price |-> IF price_truthy(unit_price) THEN unit_price
                                 ELSE price,
                  special_price |->
                      parse_price(Get(row, "special_price"), FALSE).value,
                  anchor_price |->
                      parse_price(Get(row, "anchor_price"), FALSE).value])
    ELSE Raise("Skipped", "missing required fields")

tommy_texts(row, texts, price, unit_price) ==
    tommy_product(row, texts,
                  FirstError(texts, <<"barcode", "product_id", "product">>),
                  price, unit_price)

tommy_parse_row(row) ==
    tommy_texts(row,
                [f \in {"barcode", "product_id", "product"} |->
                    csv_text(row, f, FALSE)],
                parse_price(Get(row, "price"), FALSE).value,
                parse_price(Get(row, "unit_price"), FALSE).value)

RECURSIVE tommy_parse_csv(_)
tommy_parse_csv(rows) ==
    IF rows = <<>> THEN <<>>
    ELSE keep(tommy_parse_row(Head(rows)), tommy_parse_csv(Tail(rows)))

\* map_columns: str(cell.value or "").strip()
dm_cell(row, column) ==
    IF Has(row, column) /\ row[column] # None THEN strip(row[column][1]) ELSE <<>>

\* DmCrawler.parse_excel, one row that has a product id
dm_parse_row(row) ==
    validated(fix_product_data("dm",
        [product |-> dm_cell(row, "product"),
         product_id |-> dm_cell(row, "product_id"),
         barcode |-> dm_cell(row, "barcode"),
         unit_price |-> parse_price(Some(dm_cell(row, "unit_price")), FALSE).value,
         price |-> parse_price(Some(dm_cell(row, "price")), FALSE).value,
         special_price |->
             parse_price(Some(dm_cell(row, "special_price")), FALSE).value,
         anchor_price |->
             parse_price(Some(dm_cell(row, "anchor_price")), FALSE).value]))

RECURSIVE dm_parse_excel(_)
dm_parse_excel(rows) ==
    IF rows = <<>> THEN <<>>
    ELSE IF dm_cell(Head(rows), "product_id") = <<>>
         THEN dm_parse_excel(Tail(rows))
         ELSE keep(dm_parse_row(Head(rows)), dm_parse_excel(Tail(rows)))

-----------------------------------------------------------------------------
(* get_all_products: what one iteration of the group loop does.  A group is *)
(* [locator, payload]: the text the Store is parsed from (a file name, or   *)
(* the store element of an XML document) and the downloaded content.        *)
(* The result says whether a Store is appended, the group is skipped, or    *)
(* an exception leaves get_all_products.                                    *)

NewStore(a, g, products) ==
    [chain |-> CHAIN[a], store_id |-> g.locator, items |-> products]

Append_(a, g, products) ==
    [outcome |-> "append", parsed |-> TRUE, products |-> products,
     store |-> <<NewStore(a, g, products)>>]
Skip_(parsed, products) ==
    [outcome |-> "skip", parsed |-> parsed, products |-> products, store |-> <<>>]
Abort_(type) ==
    [outcome |-> "abort", parsed |-> FALSE, products |-> <<>>, store |-> <<>>,
     error |-> type]

LocatorOk(g) == g.locator # "bad"
Decodable(g) == g.payload.kind # "undecodable"
HasRows(g) == g.payload.kind = "rows"

\* get_store_prices: decoding and parsing inside try, [] on any exception
get_store_prices(a, g) ==
    IF HasRows(g) THEN parse_csv(a, g.payload.rows) ELSE <<>>

\* "if not products: continue", else the Store is appended
append_unless_empty(a, g, products) ==
    IF products = <<>> THEN Skip_(TRUE, products) ELSE Append_(a, g, products)

\* Eurospin, Kaufland, Konzum, Ktc, Metro, Ntl, Zabac: the store locator and
\* get_store_prices inside one try, then "if not products: continue"
body_csv_skip_empty(a, g) ==
    IF ~LocatorOk(g) THEN Skip_(FALSE, <<>>)
    ELSE append_unless_empty(a, g, get_store_prices(a, g))

\* Ribola, Trgocentar, Vrutak: get_store_data inside try, then
\* "if not store.items: continue"
body_xml_skip_empty(a, g) ==
    IF ~HasRows(g) \/ ~LocatorOk(g) THEN Skip_(FALSE, <<>>)
    ELSE append_unless_empty(a, g, parse_xml_products(a, g.payload.rows))

\* Lidl: decode and header detection are outside any try
body_lidl(g) ==
    IF ~LocatorOk(g) THEN Skip_(FALSE, <<>>)
    ELSE IF ~Decodable(g) THEN Abort_("UnicodeDecodeError")
    ELSE IF ~HasRows(g) THEN Abort_("IndexError")
    ELSE Append_("lidl", g, parse_csv("lidl", g.payload.rows))

\* Plodine: decode is outside any try
body_plodine(g) ==
    IF ~LocatorOk(g) THEN Skip_(FALSE, <<>>)
    ELSE IF ~Decodable(g) THEN Abort_("UnicodeDecodeError")
    ELSE Append_("plodine", g,
                 parse_csv("plodine", IF HasRows(g) THEN g.payload.rows ELSE <<>>))

\* Spar: fetch_text with encodings and CSV_PREFIX raises ValueError when no
\* encoding yields text that starts with the prefix
body_spar(g) ==
    IF ~LocatorOk(g) THEN Skip_(FALSE, <<>>)
    ELSE IF ~HasRows(g) THEN Abort_("ValueError")
    ELSE Append_("spar", g, parse_csv("spar", g.payload.rows))

\* Studenac: parse_xml returns None on any exception, else the Store
body_studenac(g) ==
    IF ~HasRows(g) \/ ~LocatorOk(g) THEN Skip_(FALSE, <<>>)
    ELSE Append_("studenac", g, parse_xml_products("studenac", g.payload.rows))

\* Tommy: parse_store_from_filename raises outside any try; parse_csv returns
\* [] on any exception
body_tommy(g) ==
    IF ~LocatorOk(g) THEN Abort_("ValueError")
    ELSE Append_("tommy", g,
                 tommy_parse_csv(IF HasRows(g) THEN g.payload.rows ELSE <<>>))

\* Dm: one workbook for one global store; parse_excel re-raises
body_dm(g) ==
    IF ~HasRows(g) THEN Abort_("ValueError")
    ELSE append_unless_empty("dm", [g EXCEPT !.locator = "all"],
                             dm_parse_excel(g.payload.rows))

loop_body(a, g) ==
    CASE a \in {"eurospin", "kaufland", "konzum", "ktc", "metro", "ntl", "zabac"}
            -> body_csv_skip_empty(a, g)
      [] a \in {"ribola", "trgocentar", "vrutak"} -> body_xml_skip_empty(a, g)
      [] a = "lidl" -> body_lidl(g)
      [] a = "plodine" -> body_plodine(g)
      [] a = "spar" -> body_spar(g)
      [] a = "studenac" -> body_studenac(g)
      [] a = "tommy" -> body_tommy(g)
      [] a = "dm" -> body_dm(g)

\* variant: the exception is logged and an empty list returned
crawl_swallow(outcome) ==
    [kind |-> "returned",
     stores |-> IF outcome.kind = "raised" THEN <<>> ELSE outcome.stores,
     error |-> "none"]

\* crawl: get_all_products inside try; an exception is logged and re-raised
crawl(outcome) ==
    IF outcome.kind = "raised"
    THEN [kind |-> "raised", stores |-> <<>>, error |-> outcome.error]
    ELSE [kind |-> "returned", stores |-> outcome.stores, error |-> "none"]

-----------------------------------------------------------------------------
(* Inputs of a crawl: the records of a group and the groups of a run *)

T(str) == Some(str)

Record(product, product_id, barcode, price, unit_price, special_price) ==
    [product |-> product, product_id |-> product_id, barcode |-> barcode,
     price |-> price, unit_price |-> unit_price, special_price |-> special_price,
     anchor_price |-> T(<<>>)]

\* a complete record
GoodRow == Record(T(<<"p">>), T(<<"1">>), T(<<"7">>),
                  T(<<"1", ",", "5">>), T(<<"3">>), T(<<>>))
\* a record without product name
NoNameRow == Record(T(<<>>), T(<<"2">>), T(<<"7">>),
                    T(<<"2">>), T(<<"2">>), T(<<>>))
\* a record whose only price is the special price
SpecialOnlyRow == Record(T(<<"p">>), T(<<"3">>), T(<<>>),
                         T(<<>>), T(<<>>), T(<<"4">>))
\* a record with no usable price at all
NoPriceRow == Record(T(<<"p">>), T(<<"4">>), T(<<"7">>),
                     T(<<"x">>), T(<<>>), T(<<>>))
\* a line shorter than the header: the missing columns are None
ShortRow ==
    [Record(T(<<"p">>), T(<<"5">>), None, None, None, None)
        EXCEPT !.anchor_price = None]

\* a complete record without barcode that has an anchor price
AnchorRow ==
    [Record(T(<<"p">>), T(<<"6">>), T(<<>>), T(<<"2">>), T(<<"2">>), T(<<>>))
        EXCEPT !.anchor_price = T(<<"5">>)]
\* a complete record with Kaufland's anchor token "MPC 1.6.2025=5"
TokenRow ==
    [Record(T(<<"p">>), T(<<"7">>), T(<<"7">>), T(<<"2">>), T(<<"2">>), T(<<>>))
        EXCEPT !.anchor_price =
            T(<<"M", "P", "C", " ", "1", ".", "6", ".", "2", "0", "2", "5",
                "=", "5">>)]

\* a complete record whose product name is a single space
BlankNameRow == Record(T(<<SP>>), T(<<"8">>), T(<<"7">>),
                       T(<<"2">>), T(<<"2">>), T(<<>>))

\* a complete record of a file whose header line has an empty column name
EmptyHeaderRow ==
    Put(Record(T(<<"p">>), T(<<"9">>), T(<<"7">>), T(<<"2">>), T(<<"2">>),
               T(<<>>)),
        "", T(<<"9">>))

Rows ==
    {GoodRow, NoNameRow, SpecialOnlyRow, NoPriceRow, ShortRow, AnchorRow,
     TokenRow, BlankNameRow, EmptyHeaderRow}

\* a record that has a unit price and no price
UnitOnlyRow == Record(T(<<"p">>), T(<<"u">>), T(<<"7">>),
                      T(<<>>), T(<<"3">>), T(<<>>))
\* a record whose unit price is zero
ZeroUnitRow == Record(T(<<"p">>), T(<<"z">>), T(<<"7">>),
                      T(<<"7">>), T(<<"0">>), T(<<>>))
\* a record whose price and unit price are both zero
ZeroBothRow == Record(T(<<"p">>), T(<<"n">>), T(<<"7">>),
                      T(<<"0">>), T(<<"0", ",", "0", "0">>), T(<<>>))

\* records of a Tommy file, which has its own rule for the two prices
TommyRows == Rows \cup {UnitOnlyRow, ZeroUnitRow, ZeroBothRow}

RECURSIVE SeqsUpTo(_, _)
SeqsUpTo(S, n) ==
    IF n = 0 THEN {<<>>}
    ELSE LET shorter == SeqsUpTo(S, n - 1)
         IN  shorter \cup {Append(q, x) : q \in shorter, x \in S}

PayloadsOver(R) ==
    {[kind |-> k, rows |-> <<>>] : k \in {"undecodable", "empty"}}
    \cup {[kind |-> "rows", rows |-> rs] : rs \in SeqsUpTo(R, MaxRows)}

Payloads == PayloadsOver(Rows)

Locators == {"s1", "bad"}

\* (no crawler reads the content of a group before its locator was parsed:
\* the groups with a bad locator are given one content, the empty one)
GroupsOver(R) ==
    {g \in [locator : Locators, payload : PayloadsOver(R)] :
        g.locator = "bad" => g.payload = [kind |-> "empty", rows |-> <<>>]}

Groups == GroupsOver(Rows)

TommyGroups == GroupsOver(TommyRows)

\* Dm publishes one workbook for one global store: there is no store locator
AdapterGroups(a) ==
    IF a = "dm" THEN {g \in Groups : g.locator = "s1"}
    ELSE IF a = "tommy" THEN TommyGroups
    ELSE Groups

-----------------------------------------------------------------------------
(* Extracted records handed to fix_product_data *)

BarcodeAlphabet == {"7", DQ, SQ, SP}
Barcodes == SeqsUpTo(BarcodeAlphabet, MaxBarcodeLen)
ProductIds == {<<"1">>, <<"1", DQ>>, <<"1", SP>>}

\* parse_csv_row strips every text value; parse_xml_product does not
ExtractedText(a, S) ==
    IF a \in XmlAdapters THEN S ELSE {s \in S : strip(s) = s}

ExtractedDates(a) ==
    IF a \in DateFieldAdapters THEN {Some(<<>>), Some(<<"2", "0", "2", "4">>)} ELSE {}

ExtractedRecords(a) ==
    LET core ==
            [product : {<<"p">>},
             product_id : ExtractedText(a, ProductIds),
             barcode : ExtractedText(a, Barcodes),
             price : {None, Some(0), Some(100)},
             special_price : {None, Some(0), Some(200)},
             unit_price : {None, Some(0), Some(300)},
             anchor_price : {None, Some(400)}]
    IN  IF a \in DateFieldAdapters
        THEN {Put(r, "anchor_price_date", d) : r \in core, d \in ExtractedDates(a)}
        ELSE core

FixAdapters == {"spar", "ntl", "ribola"}

-----------------------------------------------------------------------------
(* Specification SpecFix: fix_product_data applied to an extracted record,   *)
(* and then once more to its own result.                                     *)

Idle ==
    /\ pc = "not_started"
    /\ stores = <<>>
    /\ nGroups = 0
    /\ nRows = 0
    /\ last = [kind |-> "none"]
    /\ ret = [kind |-> "none"]

NotPricing == priceIn = <<>> /\ priceOut = <<>>

NoParallelRuns == frames = <<>> /\ lists = <<>> /\ logged = 0

NotExported == tables = <<>>

FixInit ==
    /\ Idle
    /\ NotPricing
    /\ NoParallelRuns
    /\ NotExported
    /\ adapter \in FixAdapters
    /\ fixIn \in ExtractedRecords(adapter)
    /\ fixOut = <<>>

FixFirst ==
    /\ fixOut = <<>>
    /\ fixOut' = <<fix_product_data(adapter, fixIn)>>
    /\ UNCHANGED <<adapter, pc, stores, nGroups, nRows, last, ret, fixIn,
                 priceIn, priceOut, frames, lists, logged, tables>>

FixSecond ==
    /\ Len(fixOut) = 1
    /\ ~IsError(fixOut[1])
    /\ fixOut' = Append(fixOut, fix_product_data(adapter, fixOut[1]))
    /\ UNCHANGED <<adapter, pc, stores, nGroups, nRows, last, ret, fixIn,
                 priceIn, priceOut, frames, lists, logged, tables>>

FixNext == FixFirst \/ FixSecond

SpecFix == FixInit /\ [][FixNext]_vars

-----------------------------------------------------------------------------
(* One crawl of one chain *)

NotFixing == fixIn = <<>> /\ fixOut = <<>>

Init ==
    /\ Idle /\ adapter \in Adapters /\ NotFixing /\ NotPricing
    /\ NoParallelRuns /\ NotExported

\* get_all_products locates the day's groups (index page, ZIP archive)
LocateRecords ==
    /\ pc = "not_started"
    /\ pc' = "running"
    /\ last' = [kind |-> "locate", raised |-> FALSE]
    /\ UNCHANGED <<adapter, stores, nGroups, nRows, ret, fixIn, fixOut,
                 priceIn, priceOut, frames, lists, logged, tables>>

\* ... or the download or the parsing of the index raises
LocateRaises ==
    /\ pc = "not_started"
    /\ ret' = crawl([kind |-> "raised", error |-> "RequestError"])
    /\ pc' = IF ret'.kind = "raised" THEN "failed" ELSE "complete"
    /\ last' = [kind |-> "locate", raised |-> TRUE]
    /\ UNCHANGED <<adapter, stores, nGroups, nRows, fixIn, fixOut,
                 priceIn, priceOut, frames, lists, logged, tables>>

\* the effect of one iteration whose outcome is r; an exception goes through
\* crawl's except clause
EndIteration(g, r) ==
    /\ last' = [kind |-> "group", group |-> g, before |-> stores,
                outcome |-> r.outcome, parsed |-> r.parsed,
                products |-> r.products]
    /\ IF r.outcome = "abort"
       THEN /\ ret' = crawl([kind |-> "raised", error |-> r.error])
            /\ pc' = IF ret'.kind = "raised" THEN "failed" ELSE "complete"
            /\ stores' = stores
       ELSE /\ stores' = stores \o r.store
            /\ UNCHANGED <<pc, ret>>

\* one iteration of the loop over the groups
ProcessGroup ==
    /\ pc = "running"
    /\ nGroups < MaxGroups
    /\ adapter = "dm" => nGroups = 0
    /\ \E g \in AdapterGroups(adapter) :
          /\ nRows + Len(g.payload.rows) <= MaxRows
          /\ nRows' = nRows + Len(g.payload.rows)
          /\ EndIteration(g, loop_body(adapter, g))
    /\ nGroups' = nGroups + 1
    /\ UNCHANGED <<adapter, fixIn, fixOut,
                 priceIn, priceOut, frames, lists, logged, tables>>

\* the loop ends and crawl returns the Stores
Finish ==
    /\ pc = "running"
    /\ ret' = crawl([kind |-> "returned", stores |-> stores])
    /\ pc' = "complete"
    /\ UNCHANGED <<adapter, stores, nGroups, nRows, last, fixIn, fixOut,
                 priceIn, priceOut, frames, lists, logged, tables>>

Next == LocateRecords \/ LocateRaises \/ ProcessGroup \/ Finish

Spec == Init /\ [][Next]_vars

-----------------------------------------------------------------------------
(* Properties of a crawl *)

GroupDone == last.kind = "group"

\* the record parser a crawler's group parser calls for each record
ParseRecord(a, row) ==
    IF a \in XmlAdapters THEN parse_xml_product(a, row)
    ELSE self_parse_csv_row(a, row)

GoodIndexes(a, rows) == {i \in 1..Len(rows) : ~IsError(ParseRecord(a, rows[i]))}

\* the j-th smallest element of a set of indexes
Nth(S, j) == CHOOSE i \in S : Cardinality({k \in S : k <= i}) = j

\* C1: when k of the n records of a group fail to parse, parse_csv and the
\* XML group parsers return exactly the n-k Products of the good records, in
\* order, and the group counts as parsed: no error reaches the caller
C1_BadRecordsSkipped ==
    (GroupDone /\ adapter \in MappedAdapters
        /\ LocatorOk(last.group) /\ HasRows(last.group))
    => LET rows == last.group.payload.rows
           good == GoodIndexes(adapter, rows)
       IN  /\ last.parsed
           /\ last.outcome # "abort"
           /\ pc # "failed"
           /\ Len(last.products) = Len(rows) - Cardinality((1..Len(rows)) \ good)
           /\ \A j \in 1..Len(last.products) :
                 last.products[j] = ParseRecord(adapter, rows[Nth(good, j)])

C1_Witness ==
    /\ GroupDone
    /\ adapter = "konzum"
    /\ last.group.payload.rows = <<NoNameRow, GoodRow>>
    /\ Len(last.products) = 1
    /\ last.products[1].product_id = <<"1">>
    /\ last.outcome = "append"

\* a group whose store locator cannot be parsed or whose payload is
\* undecodable or empty
GroupFails(g) == ~LocatorOk(g) \/ ~HasRows(g)

\* C2: for every crawler a failing group is caught and only that group is
\* skipped: get_all_products goes on and the Stores collected so far stay as
\* they are
C2_GroupFailureSkipsGroup ==
    (GroupDone /\ GroupFails(last.group))
    => (pc # "failed" /\ last.outcome = "skip" /\ stores = last.before)

C4_NoEmptyStore ==
    \A i \in 1..Len(stores) : stores[i].items # <<>>

\* the record states a price, a special price or a unit price that parses
Resolvable(row) ==
    \E f \in {"price", "special_price", "unit_price"} :
        parse_price(row[f], FALSE).value # None

\* C5: every emitted Product has a price and a unit price, and it comes from
\* a record whose price can be resolved
C5_EmittedProductsPriced ==
    /\ \A i \in 1..Len(stores) : \A j \in 1..Len(stores[i].items) :
          /\ stores[i].items[j].price # None
          /\ stores[i].items[j].unit_price # None
    /\ GroupDone =>
          \A j \in 1..Len(last.products) :
              /\ last.products[j].price # None
              /\ last.products[j].unit_price # None
              /\ \E i \in 1..Len(last.group.payload.rows) :
                    LET row == last.group.payload.rows[i]
                    IN  /\ row.product_id = Some(last.products[j].product_id)
                        /\ Resolvable(row)

C5_Witness ==
    /\ GroupDone
    /\ adapter = "plodine"
    /\ last.group.payload.rows = <<SpecialOnlyRow, NoPriceRow>>
    /\ Len(last.products) = 1
    /\ last.products[1].price = Some(400)
    /\ last.products[1].unit_price = Some(400)
    /\ Len(stores) >= 1

Fixed == Len(fixOut) >= 1 /\ ~IsError(fixOut[1])
Rejected == Len(fixOut) >= 1 /\ IsError(fixOut[1])

-----------------------------------------------------------------------------
(* Properties of fix_product_data (specification SpecFix) *)

Quotes == {DQ, SQ}
HasQuote(s) == \E i \in 1..Len(s) : s[i] \in Quotes
NoOuterWhitespace(s) ==
    s = <<>> \/ (s[1] \notin Whitespace /\ s[Len(s)] \notin Whitespace)

\* the characters of s that are not quotes, in order, without the whitespace
\* before the first and after the last non-whitespace character
KeptCharacters(s) ==
    LET t == SelectSeq(s, LAMBDA c : c \notin Quotes)
        solid == {i \in 1..Len(t) : t[i] \notin Whitespace}
    IN  IF solid = {} THEN <<>>
        ELSE LET lo == CHOOSE i \in solid : \A j \in solid : i <= j
                 hi == CHOOSE i \in solid : \A j \in solid : j <= i
             IN  [k \in 1..(hi - lo + 1) |-> t[lo + k - 1]]

Synthesized == CHAIN[adapter] \o <<":">> \o fixIn.product_id

\* C6: a missing price is resolved as special_price, else unit_price, else the
\* record is rejected with the price-resolution error; a present price is kept.
C6_PriceResolutionPrecedence ==
    Len(fixOut) >= 1 =>
        LET r == fixOut[1] IN
        /\ fixIn.price # None => (~IsError(r) /\ r.price = fixIn.price)
        /\ (fixIn.price = None /\ fixIn.special_price # None)
              => (~IsError(r) /\ r.price = fixIn.special_price)
        /\ (fixIn.price = None /\ fixIn.special_price = None
                /\ fixIn.unit_price # None)
              => (~IsError(r) /\ r.price = fixIn.unit_price)
        /\ (fixIn.price = None /\ fixIn.special_price = None
                /\ fixIn.unit_price = None)
              => (IsError(r)
                  /\ r.msg = "Price, special price, and unit price are all missing")

C6_Witness ==
    /\ Fixed
    /\ fixIn.price = None
    /\ fixIn.special_price = Some(200)
    /\ fixIn.unit_price = Some(300)
    /\ fixOut[1].price = Some(200)

\* C7: after a successful fix_product_data the barcode is never the empty
\* string, whatever the input barcode and product_id.
C7_BarcodeNeverEmpty ==
    Fixed => fixOut[1].barcode # <<>>

\* C8 (as claimed): an empty barcode becomes exactly "{chain}:{product_id}";
\* a non-empty barcode is never replaced by the synthesized one.
C8_SynthesizedExactly ==
    Fixed =>
        /\ fixIn.barcode = <<>> => fixOut[1].barcode = Synthesized
        /\ fixIn.barcode # <<>> => fixOut[1].barcode = KeptCharacters(fixIn.barcode)

\* C8 (amended): an empty barcode becomes "{chain}:{product_id}" with the quote
\* characters and the surrounding whitespace removed, which is exactly
\* "{chain}:{product_id}" when product_id has no quote and no trailing
\* whitespace; a non-empty barcode is never replaced by the synthesized one.
C8_SynthesizedThenCleaned ==
    Fixed =>
        /\ fixIn.barcode = <<>>
              => fixOut[1].barcode = KeptCharacters(Synthesized)
        /\ (fixIn.barcode = <<>> /\ ~HasQuote(fixIn.product_id)
                /\ NoOuterWhitespace(fixIn.product_id))
              => fixOut[1].barcode = Synthesized
        /\ fixIn.barcode # <<>> => fixOut[1].barcode = KeptCharacters(fixIn.barcode)

C8_Witness ==
    /\ Fixed
    /\ fixIn.barcode = <<>>
    /\ fixIn.product_id = <<"1", DQ>>
    /\ fixOut[1].barcode = CHAIN[adapter] \o <<":", "1">>

\* C9: after fix_product_data the barcode has no quote character and no
\* leading or trailing whitespace, and the other characters of the input
\* barcode are kept in their order.
C9_BarcodeCleaned ==
    Fixed =>
        /\ ~HasQuote(fixOut[1].barcode)
        /\ NoOuterWhitespace(fixOut[1].barcode)
        /\ fixIn.barcode # <<>> => fixOut[1].barcode = KeptCharacters(fixIn.barcode)

C9_Witness ==
    /\ Fixed
    /\ fixIn.barcode = <<"7", DQ, "7">>
    /\ fixOut[1].barcode = <<"7", "7">>

\* C10: fix_product_data applied to its own output returns an identical record.
C10_Idempotent ==
    Len(fixOut) = 2 => (~IsError(fixOut[2]) /\ fixOut[2] = fixOut[1])

\* C11: unit_price becomes the resolved price only when it was absent; a
\* stated unit_price is never changed, also when it differs from price.
C11_UnitPriceDefault ==
    Fixed =>
        /\ fixIn.unit_price # None => fixOut[1].unit_price = fixIn.unit_price
        /\ fixIn.unit_price = None
              => (fixOut[1].unit_price = fixOut[1].price
                  /\ fixOut[1].unit_price # None)

C11_Witness ==
    /\ Fixed
    /\ fixIn.price = Some(100)
    /\ fixIn.unit_price = Some(300)
    /\ fixOut[1].price = Some(100)
    /\ fixOut[1].unit_price = Some(300)

\* an anchor_price_date came with the record (None and "" are no date)
DateSupplied ==
    /\ "anchor_price_date" \in DOMAIN fixIn
    /\ fixIn.anchor_price_date \notin {<<>>, <<<<>>>>}

ReferenceDate == <<"2", "0", "2", "5", "-", "0", "5", "-", "0", "2">>

\* C12: anchor_price_date becomes 2025-05-02 exactly when anchor_price is
\* present and no date was supplied; a supplied date is left unchanged and no
\* date is set when anchor_price is absent.
C12_AnchorDateDefault ==
    Fixed =>
        /\ (fixIn.anchor_price # None /\ ~DateSupplied)
              => fixOut[1].anchor_price_date = <<ReferenceDate>>
        /\ DateSupplied
              => fixOut[1].anchor_price_date = fixIn.anchor_price_date
        /\ fixIn.anchor_price = None
              => IF "anchor_price_date" \in DOMAIN fixIn
                 THEN fixOut[1].anchor_price_date = fixIn.anchor_price_date
                 ELSE "anchor_price_date" \notin DOMAIN fixOut[1]

C12_Witness ==
    /\ Fixed
    /\ adapter = "spar"
    /\ fixIn.anchor_price = Some(400)
    /\ fixIn.anchor_price_date = Some(<<>>)
    /\ fixOut[1].anchor_price_date = <<ReferenceDate>>

\* the text of a cell, "" for a missing one
CellText(row, column) ==
    IF Has(row, column) /\ row[column] # None THEN strip(row[column][1]) ELSE <<>>

\* the record of the last group an emitted product was built from
SourceRow(p) ==
    CHOOSE row \in Range(last.group.payload.rows) :
        CellText(row, "product_id") = p.product_id

\* C13: every Product a group parser emits went through the base rules of
\* fix_product_data: a record without barcode carries "{chain}:{product_id}",
\* price and unit_price are resolved, and an anchor price comes with a date.
C13_BaseRulesApplied ==
    GroupDone =>
        \A j \in 1..Len(last.products) :
            LET p == last.products[j] IN
            /\ CellText(SourceRow(p), "barcode") = <<>>
                  => p.barcode = CHAIN[adapter] \o <<":">> \o p.product_id
            /\ p.price # None /\ p.unit_price # None
            /\ p.anchor_price # None
                  => p.anchor_price_date \notin {None, Some(<<>>)}

\* the anchor token of a record: the groups of ANCHOR_PRICE_PATTERN when the
\* cell holds "MPC <d.m.yyyy>=<price>" with a calendar date, else None
AnchorToken(row) ==
    LET cell == Get(row, "anchor_price")
        m == IF cell = None THEN None ELSE ANCHOR_PRICE_PATTERN_search(cell[1])
    IN  IF m # None /\ strptime_ok(m[1]) THEN m ELSE None

\* C14: a Product Kaufland emits for a record with the anchor token
\* "MPC <d.m.yyyy>=<price>" has the price part as anchor_price and the date
\* part, in ISO form, as anchor_price_date.
C14_KauflandAnchorToken ==
    (GroupDone /\ adapter = "kaufland") =>
        \A j \in 1..Len(last.products) :
            LET p == last.products[j]
                m == AnchorToken(SourceRow(p))
            IN  m # None =>
                    /\ p.anchor_price = parse_price(Some(m[1].price), FALSE).value
                    /\ p.anchor_price_date = Some(strftime_iso(m[1]))

\* the adapters that read delimited records through FIELD_MAP
CsvAdapters == MappedAdapters \ XmlAdapters

\* what the text loop of parse_csv_row is to do with entry f of a row: the
\* trimmed value, "" for a missing key or a null value, and the missing-field
\* error exactly for a required entry whose trimmed value is empty
TextEntryOk(a, row, f) ==
    LET column == FIELD_MAP(a)[f][1]
        required == FIELD_MAP(a)[f][2]
        value == CellText(row, column)
        r == csv_text(row, column, required)
    IN  IF required /\ value = <<>>
        THEN IsError(r) /\ r.error = "ValueError"
                /\ r.msg = "Missing required field"
        ELSE r = Return(value)

\* C15: for every text entry parse_csv_row stores the trimmed value, or ""
\* when the record has no value under the locator (key missing or value
\* null), and fails with the missing-field error iff the entry is required
\* and the trimmed value is empty.
C15_TextEntries ==
    (GroupDone /\ adapter \in CsvAdapters
        /\ LocatorOk(last.group) /\ HasRows(last.group)) =>
        \A row \in Range(last.group.payload.rows) :
            LET r == override_row(adapter, row) IN
            ~IsError(r) =>
                \A f \in Range(TextFields(adapter)) : TextEntryOk(adapter, r, f)

\* every locator of the record holds a value (an element has no null child)
NoNullCell(row) == \A column \in DOMAIN row : row[column] # None

\* C16: parse_xml_product and parse_csv_row follow one extraction contract: on
\* the same raw values both reject the record or both build the same Product,
\* the text values trimmed and a required text that is empty after trimming
\* rejected.
C16_SameContract ==
    (GroupDone /\ adapter \in MappedAdapters
        /\ LocatorOk(last.group) /\ HasRows(last.group)) =>
        \A row \in Range(last.group.payload.rows) :
            NoNullCell(row) =>
                LET x == parse_xml_product(adapter, row)
                    c == parse_csv_row(adapter, row)
                IN  /\ IsError(x) <=> IsError(c)
                    /\ ~IsError(x) => x = c

\* the adapters whose PRICE_MAP gives special_price and anchor_price the
\* locator ""
EmptyLocatorAdapters ==
    {a \in MappedAdapters :
        PRICE_MAP(a)["special_price"][1] = "" /\ PRICE_MAP(a)["anchor_price"][1] = ""}

\* C17: an entry whose locator is the empty string and that is not required
\* resolves to absence whatever the record contains, a column with an empty
\* header included: Vrutak and Zabac emit no special price and no anchor price.
C17_EmptyLocator ==
    (GroupDone /\ adapter \in EmptyLocatorAdapters) =>
        \A j \in 1..Len(last.products) :
            /\ last.products[j].special_price = None
            /\ last.products[j].anchor_price = None

-----------------------------------------------------------------------------
(* parse_price on its own: one call on a price string drawn from the        *)
(* spellings of a small set of decimals and from the strings that hold no   *)
(* price at all                                                             *)

\* a decimal with integer part `whole` and fractional digits `frac`
\* (the integer part may be missing when there are fractional digits)
WholeParts == {<<>>, <<"0">>, <<"1">>, <<"7">>}
FracAlphabet == {"0", "4", "5", "9"}
Decimals ==
    {n \in [whole : WholeParts, frac : SeqsUpTo(FracAlphabet, MaxFracLen)] :
        n.whole # <<>> \/ n.frac # <<>>}

Currencies == {<<>>, <<"€">>, <<"E", "U", "R">>}
Blank == {<<>>, <<SP>>}

\* how a decimal is written: the separator, the currency mark and its place,
\* the whitespace around
Styles ==
    [sep : {",", "."}, currency : Currencies,
     place : {"before", "after", "after_space"}, lead : Blank, trail : Blank]

Plain(n, sep) ==
    n.whole \o (IF n.frac = <<>> THEN <<>> ELSE <<sep>> \o n.frac)

Spell(n, st) ==
    st.lead
    \o (CASE st.place = "before" -> st.currency \o Plain(n, st.sep)
          [] st.place = "after" -> Plain(n, st.sep) \o st.currency
          [] st.place = "after_space" ->
                Plain(n, st.sep) \o <<SP>> \o st.currency)
    \o st.trail

\* the strings that are empty once "€", "EUR" and whitespace are removed
NoPriceStrings ==
    {lead \o c1 \o gap \o c2 \o trail :
        lead \in Blank, c1 \in Currencies, gap \in Blank, c2 \in Currencies,
        trail \in Blank}

\* strings that hold something, but no decimal number: letters, two
\* separators, a repaired "." before a letter, a lone sign, NaN
NonNumbers ==
    {<<"a", "b", "c">>, <<"7", ",", "9", ",", "9">>, <<".", "x">>, <<"-">>,
     <<"N", "a", "N">>, <<"-", "n", "a", "n">>}

\* a non-number with blanks around and, possibly, a currency mark after it
NonNumberStrings ==
    {lead \o x \o gap \o c \o trail :
        lead \in Blank, x \in NonNumbers, gap \in Blank, c \in Currencies,
        trail \in Blank}

\* a decimal written with a sign and "." as separator
SignedStrings == {<<sign>> \o Plain(n, ".") : sign \in {"+", "-"}, n \in Decimals}

\* the calls made: the arguments, and what the string holds: no price at all
\* ("none"), a spelling of the decimal `decimal` ("spelling"), a signed
\* decimal ("signed") or a non-number ("other")
NoPriceCalls ==
    {[price_str |-> x, required |-> r, kind |-> "none", decimal |-> None] :
        x \in {None} \cup {Some(s) : s \in NoPriceStrings}, r \in BOOLEAN}

SpellingCalls ==
    {[price_str |-> Some(Spell(n, st)), required |-> r,
      kind |-> "spelling", decimal |-> Some(n)] :
        n \in Decimals, st \in Styles, r \in BOOLEAN}

SignedCalls ==
    {[price_str |-> Some(s), required |-> r, kind |-> "signed",
      decimal |-> None] : s \in SignedStrings, r \in BOOLEAN}

OtherCalls ==
    {[price_str |-> Some(s), required |-> r, kind |-> "other",
      decimal |-> None] : s \in NonNumberStrings, r \in BOOLEAN}

PriceInit ==
    /\ Idle
    /\ NotFixing
    /\ NoParallelRuns
    /\ NotExported
    /\ adapter = "tommy"
    /\ \/ priceIn \in NoPriceCalls
       \/ priceIn \in SpellingCalls
       \/ priceIn \in SignedCalls
       \/ priceIn \in OtherCalls
    /\ priceOut = <<>>

\* the call parse_price(price_str, required)
ParsePrice ==
    /\ priceOut = <<>>
    /\ priceOut' = <<parse_price(priceIn.price_str, priceIn.required)>>
    /\ UNCHANGED <<adapter, pc, stores, nGroups, nRows, last, ret, fixIn,
                   fixOut, priceIn, frames, lists, logged, tables>>

\* the decimal digits of a natural number
RECURSIVE digits_of(_)
digits_of(n) ==
    IF n < 10 THEN <<DigitChars[n + 1]>>
    ELSE digits_of(n \div 10) \o <<DigitChars[(n % 10) + 1]>>

\* str(v) of a price: "NaN" as it is, else sign, integer part, ".", and the
\* two digits of the hundredths.  (A negative zero is written without its
\* sign here; it parses back to zero either way.)
decimal_str(v) ==
    IF Len(v) >= 3 THEN v
    ELSE (IF v[1] < 0 THEN <<"-">> ELSE <<>>)
         \o digits_of((IF v[1] < 0 THEN 0 - v[1] ELSE v[1]) \div 100)
         \o <<".">>
         \o <<DigitChars[((IF v[1] < 0 THEN 0 - v[1] ELSE v[1]) % 100) \div 10 + 1],
               DigitChars[((IF v[1] < 0 THEN 0 - v[1] ELSE v[1]) % 10) + 1]>>

\* the value returned is written out and parsed again
ParseAgain ==
    /\ Len(priceOut) = 1
    /\ ~IsError(priceOut[1])
    /\ priceOut[1].value # None
    /\ priceOut' = Append(priceOut,
                          parse_price(Some(decimal_str(priceOut[1].value)),
                                      priceIn.required))
    /\ UNCHANGED <<adapter, pc, stores, nGroups, nRows, last, ret, fixIn,
                   fixOut, priceIn, frames, lists, logged, tables>>

PriceNext == ParsePrice \/ ParseAgain

SpecPrice == PriceInit /\ [][PriceNext]_vars

PriceParsed == priceOut # <<>>

RECURSIVE Pow10(_)
Pow10(k) == IF k = 0 THEN 1 ELSE 10 * Pow10(k - 1)

\* the hundredths nearest to the decimal n, a tie going up
HalfUp(n) ==
    (200 * DigitsValue(n.whole \o n.frac) + Pow10(Len(n.frac)))
        \div (2 * Pow10(Len(n.frac)))

\* C18: every spelling of one decimal gives the same two-decimal value: with
\* "," or "." as separator, with or without "€" or "EUR", with or without
\* whitespace around ("7,99 EUR", "7.99€" and "7.99" all give 7.99).
C18_SpellingsAgree ==
    (PriceParsed /\ priceIn.decimal # None) =>
        priceOut[1] = Return(Some(HalfUp(priceIn.decimal[1])))

C18_Witness ==
    /\ PriceParsed
    /\ priceIn.price_str = Some(<<"7", ",", "9", "9", " ", "E", "U", "R">>)
    /\ priceOut[1] = Return(Some(799))

\* the value of a decimal in units of 10^-Len(frac)
Scaled(n) == DigitsValue(n.whole \o n.frac)

\* C19: the price returned for a non-negative decimal is a whole number of
\* hundredths h, the one nearest to the exact decimal value, a tie going up:
\* h - 1/2 <= 100 * value < h + 1/2 ("1.005" gives 1.01, "1.004" gives 1.00).
C19_RoundHalfUp ==
    (PriceParsed /\ priceIn.decimal # None) =>
        /\ ~IsError(priceOut[1])
        /\ priceOut[1].value # None
        /\ LET h == priceOut[1].value[1]
               n == priceIn.decimal[1]
           IN  /\ h \in Nat
               /\ (2 * h - 1) * Pow10(Len(n.frac)) <= 200 * Scaled(n)
               /\ 200 * Scaled(n) < (2 * h + 1) * Pow10(Len(n.frac))

C19_Witness ==
    /\ PriceParsed
    /\ priceIn.price_str = Some(<<"1", ".", "0", "0", "5">>)
    /\ priceOut[1] = Return(Some(101))

\* the neighbouring case that rounds down
C19_RoundsDown ==
    /\ PriceParsed
    /\ priceIn.price_str = Some(<<"1", ".", "0", "0", "4">>)
    /\ priceOut[1] = Return(Some(100))

\* C20: on an absent price string, an empty one, or one that is empty once
\* "€", "EUR" and whitespace are removed, parse_price raises the missing-price
\* error when the price is required and returns None when it is not.
C20_MissingPrice ==
    (PriceParsed /\ priceIn.kind = "none") =>
        IF priceIn.required
        THEN priceOut[1] = Raise("ValueError", "Price is required")
        ELSE priceOut[1] = Return(None)

C20_Witness ==
    /\ PriceParsed
    /\ priceIn.price_str = Some(<<SP, "€", SP, "E", "U", "R", SP>>)
    /\ priceIn.required
    /\ priceOut[1] = Raise("ValueError", "Price is required")

C20_WitnessAbsent ==
    /\ PriceParsed
    /\ priceIn.price_str = None
    /\ ~priceIn.required
    /\ priceOut[1] = Return(None)

\* C21: on a non-empty string that is no decimal number parse_price returns
\* None when the price is not required, and when it is required raises the
\* invalid-format error, which is told apart from the missing-price error.
C21_InvalidFormat ==
    (PriceParsed /\ priceIn.kind = "other") =>
        IF priceIn.required
        THEN /\ IsError(priceOut[1])
             /\ priceOut[1].error = "ValueError"
             /\ priceOut[1].msg = "Invalid price format"
             /\ priceOut[1] # Raise("ValueError", "Price is required")
        ELSE priceOut[1] = Return(None)

\* C22: the error raised for an unparseable required price carries the string
\* exactly as it was passed in, before currency marks, commas and blanks
\* around were normalized.
C22_ErrorCarriesOriginal ==
    (PriceParsed /\ IsError(priceOut[1])
        /\ priceOut[1].msg = "Invalid price format") =>
        priceOut[1].arg = priceIn.price_str[1]

\* a decimal written without its integer part
NoLeadingZero(n) == n.whole = <<>>

C23_WitnessHalf ==
    /\ PriceParsed
    /\ priceIn.price_str = Some(<<",", "5", " ", "€">>)
    /\ priceOut[1] = Return(Some(50))

\* a decimal text with exactly two digits after the point
TwoFractionalDigits(t) ==
    /\ Len(t) >= 4
    /\ t[Len(t) - 2] = "."
    /\ t[Len(t) - 1] \in Digits /\ t[Len(t)] \in Digits
    /\ \A i \in 1..(Len(t) - 3) : t[i] \in Digits \cup {"-"}

\* C30: parse_price is idempotent on its own output: when it returns a value
\* v, parsing the decimal text of v returns v again, a value with exactly two
\* fractional digits.
C30_IdempotentOnOutput ==
    Len(priceOut) = 2 =>
        /\ priceOut[2] = priceOut[1]
        /\ TwoFractionalDigits(decimal_str(priceOut[2].value))

\* the products come from records of rows, in the order of those records
InSourceOrder(products, rows) ==
    \E f \in [1..Len(products) -> 1..Len(rows)] :
        /\ \A i, j \in 1..Len(products) : i < j => f[i] < f[j]
        /\ \A j \in 1..Len(products) :
              products[j].product_id = CellText(rows[f[j]], "product_id")

\* C24: the Products of a Store are in the order of their source records and
\* the Stores of a batch in the order in which their groups were taken: a
\* group's Store goes behind the Stores collected before, which stay as they
\* were, and a skipped record or group changes nothing in that order.
C24_OrderPreserved ==
    /\ GroupDone =>
          /\ \/ stores = last.before
             \/ /\ Len(stores) = Len(last.before) + 1
                /\ SubSeq(stores, 1, Len(last.before)) = last.before
                /\ stores[Len(stores)].items = last.products
          /\ last.outcome = "skip" => stores = last.before
          /\ InSourceOrder(last.products, last.group.payload.rows)
    /\ (pc = "complete" /\ ret.kind = "returned") => ret.stores = stores

\* two records of one group, both kept, in their order
C24_WitnessPair ==
    /\ GroupDone
    /\ last.group.payload.rows = <<GoodRow, AnchorRow>>
    /\ Len(last.products) = 2
    /\ last.products[1].product_id = <<"1">>
    /\ last.products[2].product_id = <<"6">>
    /\ stores = last.before \o <<stores[Len(stores)]>>

\* a group is skipped between two that give a Store: the second Store goes
\* behind the first
C24_Witness ==
    /\ GroupDone
    /\ nGroups = 3
    /\ Len(stores) = 2
    /\ last.before = <<stores[1]>>
    /\ stores[1].items[1].product_id = <<"1">>
    /\ stores[2].items[1].product_id = <<"6">>

\* C25: within the result of one crawl no two Stores have the same
\* (chain, store_id) pair, whatever sequence of groups the record-location
\* step yields, the same group listed twice included.
C25_UniqueStores ==
    \A i, j \in 1..Len(stores) :
        (stores[i].chain = stores[j].chain
            /\ stores[i].store_id = stores[j].store_id) => i = j

-----------------------------------------------------------------------------
(* Specification SpecRuns: two calls crawl(date), one per date, whose steps  *)
(* interleave. Each call is EurospinCrawler.get_all_products taken one       *)
(* statement at a time: the for loop over the generator get_zip_contents,    *)
(* and inside it the loop of parse_csv over the records of one file.         *)
(* A Store or Product object is named by the constructor call that made it:  *)
(* <<run, group, record>>, record 0 for the Store.                           *)

MaxRunGroups == 2

Runs == {1, 2}
RunAdapters == {"eurospin"}
\* the records of one member: none, one that parses, one that raises
RunFiles == {<<>>, <<GoodRow>>, <<NoPriceRow>>}

\* the CSV members of the ZIP archive of one date
RunGroups ==
    {[locator |-> "bad", payload |-> [kind |-> "empty", rows |-> <<>>]],
     [locator |-> "s1", payload |-> [kind |-> "undecodable", rows |-> <<>>]]}
    \cup {[locator |-> "s1", payload |-> [kind |-> "rows", rows |-> rs]] :
             rs \in RunFiles}

\* what get_index finds for a date: no archive, or the archive's members
Archives == {None} \cup {Some(gs) : gs \in SeqsUpTo(RunGroups, MaxRunGroups)}

\* the local variables of a call before its first statement
NewFrame(archive) ==
    [archive |-> archive, at |-> "call", i |-> 0, k |-> 0, products |-> <<>>,
     events |-> <<>>, out |-> None]

\* variant: one list object serves every call
list_id_shared(r) == <<"stores", 1>>

\* "stores = []" binds a list object of the call's own
list_id(r) == <<"stores", r>>

\* variant: the generator already hands out the next member
iteration_any(f) == TRUE

\* the for statement resumes the generator once the loop body has ended
iteration_over(f) == f.at = "for"

InFlight(f) == f.at \in {"for", "rows"}

\* the two calls before their first statement, each with a date's archive
NewFrames == [Runs -> {NewFrame(a) : a \in Archives}]

Event(kind, i, k) == [kind |-> kind, group |-> i, record |-> k]

RunsInit ==
    /\ Idle
    /\ NotFixing
    /\ NotPricing
    /\ NotExported
    /\ adapter \in RunAdapters
    /\ frames \in NewFrames
    /\ lists = <<>>
    /\ logged = 0

\* crawl calls get_all_products: without an archive it returns [], else the
\* list `stores` is created
Call(r) ==
    /\ frames[r].at = "call"
    /\ IF frames[r].archive = None
       THEN /\ frames' = [frames EXCEPT ![r] =
                   [@ EXCEPT !.at = "returned", !.out = Some(<<>>)]]
            /\ lists' = lists
            /\ logged' = logged + 3
       ELSE /\ frames' = [frames EXCEPT ![r] = [@ EXCEPT !.at = "for"]]
            /\ lists' = Put(lists, list_id(r), <<>>)
            /\ logged' = logged + 1
    /\ UNCHANGED <<adapter, pc, stores, nGroups, nRows, last, ret, fixIn,
                   fixOut, priceIn, priceOut, tables>>

\* the generator yields the next member; parse_store_info and the decoding of
\* get_store_prices run, and either end the iteration or enter parse_csv
NextGroup(r) ==
    LET f == frames[r]
        i == f.i + 1
    IN  /\ f.at \in {"for", "rows"}
        /\ iteration_over(f)
        /\ f.i < Len(f.archive[1])
        /\ LET g == f.archive[1][i]
           IN  IF ~LocatorOk(g)
               THEN /\ frames' = [frames EXCEPT ![r] =
                           [f EXCEPT !.i = i,
                                     !.events = Append(@, Event("skip", i, 0))]]
                    /\ logged' = logged + 1
               ELSE IF ~Decodable(g)
               THEN /\ frames' = [frames EXCEPT ![r] =
                           [f EXCEPT !.i = i,
                                     !.events = @ \o <<Event("store", i, 0),
                                                       Event("skip", i, 0)>>]]
                    /\ logged' = logged + 3
               ELSE /\ frames' = [frames EXCEPT ![r] =
                           [f EXCEPT !.i = i, !.at = "rows", !.k = 0,
                                     !.products = <<>>,
                                     !.events = Append(@, Event("store", i, 0))]]
                    /\ logged' = logged + 1
        /\ UNCHANGED <<adapter, pc, stores, nGroups, nRows, last, ret, fixIn,
                       fixOut, priceIn, priceOut, lists, tables>>

\* one iteration of parse_csv: the record is parsed and appended, or the
\* exception is logged
NextRecord(r) ==
    LET f == frames[r]
        k == f.k + 1
    IN  /\ f.at = "rows"
        /\ f.k < Len(f.archive[1][f.i].payload.rows)
        /\ LET p == self_parse_csv_row(adapter, f.archive[1][f.i].payload.rows[k])
           IN  IF IsError(p)
               THEN /\ frames' = [frames EXCEPT ![r] =
                           [f EXCEPT !.k = k,
                                     !.events = Append(@, Event("record", f.i, k))]]
                    /\ logged' = logged + 1
               ELSE /\ frames' = [frames EXCEPT ![r] =
                           [f EXCEPT !.k = k,
                                     !.products = Append(@,
                                         [obj |-> <<r, f.i, k>>, value |-> p]),
                                     !.events = Append(@, Event("record", f.i, k))]]
                    /\ logged' = logged
        /\ UNCHANGED <<adapter, pc, stores, nGroups, nRows, last, ret, fixIn,
                       fixOut, priceIn, priceOut, lists, tables>>

\* parse_csv has returned: "if not products: continue", else the Store gets
\* its items and is appended
EndGroup(r) ==
    LET f == frames[r]
    IN  /\ f.at = "rows"
        /\ f.k = Len(f.archive[1][f.i].payload.rows)
        /\ IF f.products = <<>>
           THEN /\ frames' = [frames EXCEPT ![r] =
                       [f EXCEPT !.at = "for",
                                 !.events = Append(@, Event("skip", f.i, 0))]]
                /\ lists' = lists
                /\ logged' = logged + 1
           ELSE /\ frames' = [frames EXCEPT ![r] =
                       [f EXCEPT !.at = "for", !.products = <<>>,
                                 !.events = Append(@, Event("append", f.i, 0))]]
                /\ lists' = [lists EXCEPT ![list_id(r)] = Append(@,
                       [obj |-> <<r, f.i, 0>>, group |-> f.archive[1][f.i],
                        items |-> f.products])]
                /\ logged' = logged
        /\ UNCHANGED <<adapter, pc, stores, nGroups, nRows, last, ret, fixIn,
                       fixOut, priceIn, priceOut, tables>>

\* the generator is exhausted: "return stores", and crawl returns it
Return_(r) ==
    LET f == frames[r]
    IN  /\ f.at = "for"
        /\ f.i = Len(f.archive[1])
        /\ frames' = [frames EXCEPT ![r] =
               [f EXCEPT !.at = "returned", !.out = Some(lists[list_id(r)])]]
        /\ logged' = logged + 1
        /\ UNCHANGED <<adapter, pc, stores, nGroups, nRows, last, ret, fixIn,
                       fixOut, priceIn, priceOut, lists, tables>>

RunsNext ==
    \E r \in Runs :
        Call(r) \/ NextGroup(r) \/ NextRecord(r) \/ EndGroup(r) \/ Return_(r)

SpecRuns == RunsInit /\ [][RunsNext]_vars

-----------------------------------------------------------------------------
(* Properties of the interleaved calls *)

Closed(ev, i, q) ==
    \E p \in 1..(q - 1) : ev[p].group = i /\ ev[p].kind \in {"append", "skip"}

Built(ev, i, q) == \E p \in 1..(q - 1) : ev[p] = Event("store", i, 0)

Touched(ev, i, k, q) == \E p \in 1..(q - 1) : ev[p] = Event("record", i, k)

\* every record of member j that parse_csv is given has been parsed before
\* position q
AllTouched(groups, ev, j, q) ==
    (LocatorOk(groups[j]) /\ Decodable(groups[j])) =>
        \A k \in 1..Len(groups[j].payload.rows) : Touched(ev, j, k, q)

GroupsInTurn(groups, ev) ==
    \A q \in 1..Len(ev) :
        /\ \A j \in 1..(ev[q].group - 1) :
              Closed(ev, j, q) /\ AllTouched(groups, ev, j, q)
        /\ ev[q].kind = "record" =>
              Built(ev, ev[q].group, q) /\ ~Closed(ev, ev[q].group, q)
        /\ ev[q].kind = "append" =>
              Built(ev, ev[q].group, q) /\ AllTouched(groups, ev, ev[q].group, q)

\* C26: get_all_products handles the record groups strictly one after
\* another: whenever the Store of a group is built, a record of it is parsed
\* or the group is appended or skipped, every earlier group has had all its
\* records parsed and has been appended or skipped; a record is parsed only
\* after its group's Store was built and before the group is closed.
C26_GroupsInTurn ==
    \A r \in Runs :
        frames[r].archive # None =>
            GroupsInTurn(frames[r].archive[1], frames[r].events)

\* a call has returned after two groups with a record each, the first of
\* them appended
C26_Witness ==
    /\ frames[1].at = "returned"
    /\ frames[1].archive # None
    /\ Len(frames[1].archive[1]) = 2
    /\ \E q \in 1..Len(frames[1].events) :
          /\ frames[1].events[q] = Event("record", 2, 1)
          /\ Touched(frames[1].events, 1, 1, q)
          /\ \E p \in 1..(q - 1) : frames[1].events[p] = Event("append", 1, 0)

\* the Stores get_all_products returns for an archive when it runs alone
RECURSIVE stores_of(_, _)
stores_of(a, groups) ==
    IF groups = <<>> THEN <<>>
    ELSE body_csv_skip_empty(a, Head(groups)).store
             \o stores_of(a, Tail(groups))

RunAlone(a, archive) ==
    IF archive = None THEN <<>> ELSE stores_of(a, archive[1])

Values(entries) == [j \in 1..Len(entries) |-> entries[j].value]

\* the Stores of a returned list, as values
Returned(a, out) ==
    [j \in 1..Len(out) |-> NewStore(a, out[j].group, Values(out[j].items))]

\* the Store and Product objects reachable from a returned list
Objects(out) ==
    {out[j].obj : j \in 1..Len(out)}
    \cup UNION {{out[j].items[n].obj : n \in 1..Len(out[j].items)} :
                   j \in 1..Len(out)}

HasReturned(r) == frames[r].at = "returned"

\* C27: two crawls running in parallel do not influence each other: under
\* every interleaving a call returns the Stores it returns when it runs
\* alone, and no Store or Product object is in the lists of both calls.
C27_RunsIsolated ==
    /\ \A r \in Runs :
          HasReturned(r) =>
              Returned(adapter, frames[r].out[1])
                  = RunAlone(adapter, frames[r].archive)
    /\ (HasReturned(1) /\ HasReturned(2)) =>
           Objects(frames[1].out[1]) \cap Objects(frames[2].out[1]) = {}

\* one call has returned its Stores while the other, which has appended a
\* Store already, is in the middle of its next group
C27_Witness ==
    /\ HasReturned(1)
    /\ frames[1].out[1] # <<>>
    /\ frames[2].at = "rows"
    /\ lists[list_id(2)] # <<>>
    /\ logged > 0

-----------------------------------------------------------------------------
(* The Tommy adapter's rule for price and unit price *)

Named(row) == row.product # None /\ strip(row.product[1]) # <<>>

\* what a cell parses to, and whether that is a value other than zero
Parsed(row, f) == parse_price(Get(row, f), FALSE).value
NonZero(v) == v # None /\ v # Some(0)

RowsWithId(rows, id) ==
    {i \in 1..Len(rows) :
        rows[i].product_id # None /\ strip(rows[i].product_id[1]) = id}

\* the product p agrees with the rule applied to the source record row
TommyRule(p, row) ==
    /\ Named(row)
    /\ NonZero(Parsed(row, "price")) \/ NonZero(Parsed(row, "unit_price"))
    /\ NonZero(Parsed(row, "price")) => p.price = Parsed(row, "price")
    /\ NonZero(Parsed(row, "unit_price")) =>
           p.unit_price = Parsed(row, "unit_price")
    /\ ~NonZero(Parsed(row, "price")) => p.price = Parsed(row, "unit_price")
    /\ ~NonZero(Parsed(row, "unit_price")) => p.unit_price = Parsed(row, "price")

TommyDone == GroupDone /\ adapter = "tommy" /\ last.outcome = "append"

\* C28: a Product of the Tommy adapter comes from a row that has a name and
\* a price or unit price that parses to a non-zero value; a price or unit
\* price that is missing or zero is set to the other one; a row whose price
\* and unit price are both missing or zero gives no Product.
C28_TommyPrices ==
    TommyDone =>
        LET rows == last.group.payload.rows
        IN  /\ \A n \in 1..Len(last.products) :
                  \E i \in RowsWithId(rows, last.products[n].product_id) :
                      TommyRule(last.products[n], rows[i])
            /\ \A i \in 1..Len(rows) :
                  (~NonZero(Parsed(rows[i], "price"))
                       /\ ~NonZero(Parsed(rows[i], "unit_price"))) =>
                      \A n \in 1..Len(last.products) :
                          last.products[n].product_id
                              # strip(rows[i].product_id[1])

\* a file with a row that has only a unit price, which becomes its price too,
\* and a row whose prices are both zero, which gives no Product
C28_Witness ==
    /\ TommyDone
    /\ last.group.payload.rows = <<UnitOnlyRow, ZeroBothRow>>
    /\ Len(last.products) = 1
    /\ last.products[1].price = Some(300)
    /\ last.products[1].unit_price = Some(300)

\* a row whose unit price is zero gives a Product with the price as both
C28_WitnessZeroUnit ==
    /\ TommyDone
    /\ last.group.payload.rows = <<ZeroUnitRow>>
    /\ Len(last.products) = 1
    /\ last.products[1].price = Some(700)
    /\ last.products[1].unit_price = Some(700)

-----------------------------------------------------------------------------
(* Specification SpecTransform: transform_products applied to the Stores a   *)
(* crawl has returned.  A dict is kept as the sequence of its (key, row)     *)
(* pairs in insertion order, which is the order list(d.values()) gives.      *)

MaxItems == 3

TransformAdapters == {"konzum", "spar"}

\* Products as the parsers leave them: for each of two ids, one with barcode
\* and special price and one, of another name, without
ExportProducts ==
    {Product([product |-> name, product_id |-> id,
              barcode |-> IF name = <<"q">> THEN <<>> ELSE <<"7">>,
              price |-> Some(100), unit_price |-> Some(100),
              special_price |-> IF name = <<"q">> THEN None ELSE Some(50),
              anchor_price |-> None]) :
        name \in {<<"p">>, <<"q">>}, id \in {<<"1">>, <<"2">>}}

StoreIds == <<"s1", "s2">>

\* a Product appended to the items of the first or the second Store
Occurrences == [store : DOMAIN StoreIds, product : ExportProducts]

ItemsOf(q, n) ==
    LET own == SelectSeq(q, LAMBDA o : o.store = n)
    IN  [j \in 1..Len(own) |-> own[j].product]

StoresOf(a, q) ==
    [n \in DOMAIN StoreIds |->
        [chain |-> CHAIN[a], store_id |-> StoreIds[n], items |-> ItemsOf(q, n)]]

StoreLists(a) == {StoresOf(a, q) : q \in SeqsUpTo(Occurrences, MaxItems)}

\* f"{store.chain}:{product.product_id}"
key_of(store, product) == store.chain \o <<":">> \o product.product_id

\* maybe(val): "" for None
maybe(val) == IF val = None THEN <<>> ELSE val

store_row(store) == [store_id |-> store.store_id]

\* the dict stored under a key: "barcode": product.barcode or key
product_row(key, p) ==
    [barcode |-> IF p.barcode = <<>> THEN key ELSE p.barcode,
     product_id |-> p.product_id,
     name |-> p.product]

price_row(store, p) ==
    [store_id |-> store.store_id,
     product_id |-> p.product_id,
     price |-> p.price,
     unit_price |-> maybe(p.unit_price),
     anchor_price |-> maybe(p.anchor_price),
     special_price |-> maybe(p.special_price)]

HasKey(map, key) == \E i \in 1..Len(map) : map[i].key = key

\* variant: the row of a key that is in the dict already is replaced
put_last(map, key, row) ==
    IF HasKey(map, key)
    THEN [i \in 1..Len(map) |->
             IF map[i].key = key THEN [key |-> key, row |-> row] ELSE map[i]]
    ELSE Append(map, [key |-> key, row |-> row])

\* if key not in product_map: product_map[key] = {...}
put_first(map, key, row) ==
    IF HasKey(map, key) THEN map ELSE Append(map, [key |-> key, row |-> row])

put_product(map, key, p) == put_first(map, key, product_row(key, p))

\* the loop over store.items
RECURSIVE items_loop(_, _, _)
items_loop(store, items, acc) ==
    IF items = <<>> THEN acc
    ELSE items_loop(store, Tail(items),
             [acc EXCEPT
                 !.product_map = put_product(@, key_of(store, Head(items)),
                                             Head(items)),
                 !.price_list = Append(@, price_row(store, Head(items)))])

\* the loop over stores
RECURSIVE stores_loop(_, _)
stores_loop(sts, acc) ==
    IF sts = <<>> THEN acc
    ELSE stores_loop(Tail(sts),
             items_loop(Head(sts), Head(sts).items,
                 [acc EXCEPT !.store_list = Append(@, store_row(Head(sts)))]))

dict_values(map) == [i \in 1..Len(map) |-> map[i].row]

returned_lists(acc) ==
    [stores |-> acc.store_list,
     products |-> dict_values(acc.product_map),
     prices |-> acc.price_list]

transform_products(sts) ==
    returned_lists(stores_loop(sts,
        [store_list |-> <<>>, product_map |-> <<>>, price_list |-> <<>>]))

\* a crawl has returned the Stores of a chain
TransformInit ==
    /\ adapter \in TransformAdapters
    /\ pc = "complete"
    /\ stores \in StoreLists(adapter)
    /\ ret = crawl([kind |-> "returned", stores |-> stores])
    /\ nGroups = 0
    /\ nRows = 0
    /\ last = [kind |-> "none"]
    /\ NotFixing
    /\ NotPricing
    /\ NoParallelRuns
    /\ tables = <<>>

\* save_chain calls transform_products(stores)
Transform ==
    /\ tables = <<>>
    /\ ret.kind = "returned"
    /\ tables' = <<transform_products(ret.stores)>>
    /\ UNCHANGED <<adapter, pc, stores, nGroups, nRows, last, ret, fixIn,
                   fixOut, priceIn, priceOut, frames, lists, logged>>

TransformNext == Transform

SpecTransform == TransformInit /\ [][TransformNext]_vars

Transformed == tables # <<>>

\* the (store, item) occurrences of a list of Stores, in order
RECURSIVE Flat(_)
Flat(sts) ==
    IF sts = <<>> THEN <<>>
    ELSE [j \in 1..Len(Head(sts).items) |->
             [store |-> Head(sts), product |-> Head(sts).items[j]]]
         \o Flat(Tail(sts))

KeyAt(flat, n) == key_of(flat[n].store, flat[n].product)

FirstWith(flat, k) ==
    CHOOSE n \in 1..Len(flat) :
        KeyAt(flat, n) = k /\ \A m \in 1..(n - 1) : KeyAt(flat, m) # k

\* C29: transform_products gives one price row for every (store, item)
\* occurrence, in input order, so there are as many price rows as items in
\* all stores; and one product row for each distinct "{chain}:{product_id}"
\* key, which is the row of the first Product seen with that key whatever
\* the later Products with the key hold.
C29_RowsPerOccurrence ==
    Transformed =>
        LET flat == Flat(ret.stores)
            t == tables[1]
            keys == {KeyAt(flat, n) : n \in 1..Len(flat)}
        IN  /\ Len(t.prices) = Len(flat)
            /\ \A n \in 1..Len(flat) :
                  /\ t.prices[n].store_id = flat[n].store.store_id
                  /\ t.prices[n].product_id = flat[n].product.product_id
                  /\ t.prices[n].price = flat[n].product.price
                  /\ t.prices[n].special_price = flat[n].product.special_price
            /\ Len(t.products) = Cardinality(keys)
            /\ \A k \in keys :
                  LET p == flat[FirstWith(flat, k)].product
                      js == {j \in 1..Len(t.products) :
                                t.products[j].product_id = p.product_id}
                  IN  /\ Cardinality(js) = 1
                      /\ \A j \in js :
                            /\ t.products[j].name = p.product
                            /\ t.products[j].barcode
                                   = IF p.barcode = <<>> THEN k ELSE p.barcode

\* three items in two stores, two of them with one key and different names:
\* three price rows, two product rows, the first of which has the name and
\* barcode of the Product seen first
C29_Witness ==
    /\ Transformed
    /\ Len(ret.stores[1].items) = 2
    /\ Len(ret.stores[2].items) = 1
    /\ ret.stores[1].items[1].product_id = ret.stores[2].items[1].product_id
    /\ ret.stores[1].items[1].product = <<"p">>
    /\ ret.stores[2].items[1].product = <<"q">>
    /\ ret.stores[1].items[2].product_id # ret.stores[1].items[1].product_id
    /\ Len(tables[1].prices) = 3
    /\ Len(tables[1].products) = 2
    /\ tables[1].products[1].name = <<"p">>
    /\ tables[1].products[1].barcode = <<"7">>

=============================================================================
